---- MODULE Spec2Model ----
(***************************************************************************)
(* Model of the CodeGPT backend: the two request handlers (analyze_code    *)
(* and debug_logs), the AI service that builds prompts and post-processes  *)
(* the model reply, the log service and the code service.                  *)
(*                                                                         *)
(* Text is modelled as a sequence of lines (what str.split("\n") gives)    *)
(* and a line as a sequence of tokens; " " is a blank, "FENCE" a fence.    *)
(* An Optional value is a sequence of length 0 (None) or 1.                *)
(***************************************************************************)
EXTENDS Integers, Sequences, FiniteSets, TLC

VARIABLES
    request,     \* the request being handled by an endpoint
    pc,          \* position of the endpoint handler
    stages,      \* pre-processing calls the handler has made, in order
    modelCalls,  \* prompts handed to generate_content_async, in order
    outcome,     \* what the caller got: None, an AIResponse or an HTTP error
    reply,       \* model reply text handed to _parse_ai_response
    parsed,      \* the AIResponse _parse_ai_response built from reply
    logs,        \* log text handed to LogService.analyze_logs
    analysis,    \* the dictionary LogService.analyze_logs returned
    source,      \* source text handed to CodeService._optimize_imports
    optimized    \* results of _optimize_imports on source and on its output

vars == <<request, pc, stages, modelCalls, outcome, reply, parsed, logs,
          analysis, source, optimized>>

None == <<>>
Some(x) == <<x>>

(***************************************************************************)
(* Generic sequence helpers.                                               *)
(***************************************************************************)
Range(s) == {s[i] : i \in 1..Len(s)}

SeqsUpTo(S, n) == UNION {[1..k -> S] : k \in 0..n}

NonEmptySeqsUpTo(S, n) == UNION {[1..k -> S] : k \in 1..n}

RECURSIVE Flatten(_)
Flatten(ss) == IF ss = <<>> THEN <<>> ELSE Head(ss) \o Flatten(Tail(ss))

\* sep.join(parts) for parts that are token sequences
RECURSIVE Join(_, _)
Join(parts, sep) ==
    IF parts = <<>> THEN <<>>
    ELSE IF Len(parts) = 1 THEN parts[1]
    ELSE parts[1] \o sep \o Join(Tail(parts), sep)

IsBlank(tok) == tok = " "

\* str.lstrip / str.rstrip / str.strip on a token line
RECURSIVE LStrip(_)
LStrip(line) ==
    IF line # <<>> /\ IsBlank(Head(line)) THEN LStrip(Tail(line)) ELSE line

RECURSIVE RStrip(_)
RStrip(line) ==
    IF line # <<>> /\ IsBlank(line[Len(line)])
    THEN RStrip(SubSeq(line, 1, Len(line) - 1))
    ELSE line

Strip(line) == RStrip(LStrip(line))

\* str.lower on one token, then on a line
LowerTok(tok) ==
    CASE tok = "Python" -> "python"
      [] tok = "JS" -> "js"
      [] OTHER -> tok

LowerLine(line) == [i \in 1..Len(line) |-> LowerTok(line[i])]

(***************************************************************************)
(* AIService: post-processing of the model reply                           *)
(* (src/app/services/ai_service.py).                                       *)
(***************************************************************************)
\* the token of a triple backtick
Fence == "FENCE"

StartsWithFence(line) == line # <<>> /\ line[1] = Fence

\* line[3:].strip(), lower-cased when it is not empty, else None
\* (LanguageSpecNoLower: the same without .lower())
Lowered(language_spec) ==
    IF language_spec # <<>> THEN Some(LowerLine(language_spec)) ELSE None

NotLowered(language_spec) ==
    IF language_spec # <<>> THEN Some(language_spec) ELSE None

LanguageSpecNoLower(line) == NotLowered(Strip(Tail(line)))

LanguageSpec(line) == Lowered(Strip(Tail(line)))

\* {"code": "\n".join(current_snippet), "language": current_language or "text"}
Snippet(current_snippet, current_language) ==
    [code |-> Join(current_snippet, <<"\n">>),
     language |-> IF current_language # None THEN current_language[1]
                  ELSE <<"text">>]

ScanInit ==
    [snippets |-> <<>>, current_snippet |-> <<>>, current_language |-> None,
     in_code_block |-> FALSE]

\* an opening fence: the language is set when the fence carries one
OpenBlock(st, language) ==
    [st EXCEPT !.in_code_block = TRUE,
               !.current_language = IF language # None THEN language ELSE @]

\* one iteration of the for loop of _extract_code_snippets
ScanLine(st, line) ==
    IF StartsWithFence(line)
    THEN IF st.in_code_block
         THEN [snippets |->
                   IF st.current_snippet # <<>>
                   THEN Append(st.snippets,
                               Snippet(st.current_snippet, st.current_language))
                   ELSE st.snippets,
               current_snippet |-> <<>>,
               current_language |-> None,
               in_code_block |-> FALSE]
         ELSE OpenBlock(st, LanguageSpec(line))
    ELSE IF st.in_code_block
         THEN [st EXCEPT !.current_snippet = Append(st.current_snippet, line)]
         ELSE st

RECURSIVE ScanLines(_, _)
ScanLines(st, lines) ==
    IF lines = <<>> THEN st ELSE ScanLines(ScanLine(st, Head(lines)), Tail(lines))

\* after the loop: a block still open is emitted when it holds a line
AfterScan(st) ==
    IF st.current_snippet # <<>>
    THEN Append(st.snippets, Snippet(st.current_snippet, st.current_language))
    ELSE st.snippets

ExtractCodeSnippets(content) == AfterScan(ScanLines(ScanInit, content))

\* content is the reply text; "" is the text of one empty line
EmptyText == << <<>> >>

\* Characters of a reply line that the suggestion rules look at one by one
\* are tokens of their own: the digits "0" and "1", ".", "-", "*", the
\* bullet glyph ("BULLET") and the three characters of the literal the
\* source compares with in its place: a-circumflex, euro sign, cent sign.
\* "should", "Consider", "recommendation" and "Try" are the words that hold
\* a suggestion keyword once lower-cased; "Note", "keyboard",
\* "recommendation" and "IMPORTANT" those that hold a key-point keyword.
\*
\* What one line, already stripped, adds to suggestions: the rules are
\*     line[0].isdigit() and len(line) > 2 and line[1] == "."
\*     line.startswith((<the three-character literal>, "-", "*"))
\*     any(keyword in line.lower() for keyword in suggestion_keywords)
SuggestionsOfLine(line) ==
    IF line = <<>> THEN <<>>
    ELSE IF Len(line) > 2 /\ line[1] \in {"0", "1"} /\ line[2] = "."
         THEN <<Strip(Tail(Tail(line)))>>
    ELSE IF \/ line[1] \in {"-", "*"}
            \/ Len(line) >= 3 /\ SubSeq(line, 1, 3) = <<"A_CIRC", "EURO", "CENT">>
         THEN <<Strip(Tail(line))>>
    ELSE IF \E i \in 1..Len(line) :
                line[i] \in {"should", "Consider", "recommendation", "Try"}
         THEN <<line>>
    ELSE <<>>

ExtractSuggestions(content) ==
    Flatten([i \in 1..Len(content) |-> SuggestionsOfLine(Strip(content[i]))])

\* "\n".join(key_points) if key_points else None
JoinedOrNone(key_points) ==
    IF key_points # <<>> THEN Some(Join(key_points, <<"\n">>)) ELSE None

ExtractChatContext(content) ==
    JoinedOrNone(Flatten(
        [i \in 1..Len(content) |->
            IF \E k \in 1..Len(content[i]) :
                   content[i][k] \in {"Note", "keyboard", "recommendation",
                                      "IMPORTANT"}
            THEN <<Strip(content[i])>>
            ELSE <<>>]))

\* AIResponse(content=..., suggestions=..., code_snippets=...,
\* chat_context=...): the model class declares the first three fields, and
\* a keyword argument it does not declare is ignored
AIResponse(content, suggestions, code_snippets, chat_context) ==
    [content |-> content,
     suggestions |-> suggestions,
     code_snippets |-> code_snippets]

ParseAIResponse(content) ==
    AIResponse(content, ExtractSuggestions(content),
               ExtractCodeSnippets(content), ExtractChatContext(content))

(***************************************************************************)
(* LogService (src/app/services/log_service.py).                           *)
(* Log tokens: timestamps matching \d{4}-\d{2}-\d{2} \d{2}:\d{2}:\d{2},    *)
(* the traceback header, a stack frame, exception names, HTTP status       *)
(* codes, API error words, ":" and plain words.                            *)
(***************************************************************************)
NL == "\n"

\* the sample timestamps, listed in the order of Python's string comparison
TimestampOrder ==
    <<"2024-01-01 09:59:59", "2024-01-01 10:00:00", "2024-01-02 00:00:00">>

TimestampToks == Range(TimestampOrder)

TimestampRank(ts) == CHOOSE i \in 1..Len(TimestampOrder) : TimestampOrder[i] = ts

\* a <= b on timestamp strings
StrLeq(a, b) == TimestampRank(a) <= TimestampRank(b)

TracebackHeader == "Traceback (most recent call last):"

FrameTok == "File app.py, line 12, in run"

\* tokens matching \w+Error
ErrorNames == {"ValueError", "ImportError", "TypeError", "SyntaxError"}

\* tokens matching (?:TypeError|ReferenceError|SyntaxError)
JsErrorNames == {"TypeError", "ReferenceError", "SyntaxError"}

\* tokens matching (?:4\d{2}|5\d{2})
StatusToks == {"404", "500"}

\* tokens matching (?:Error|NOT_FOUND|BAD_REQUEST)
ApiWords == {"Error", "NOT_FOUND", "BAD_REQUEST"}

\* keyword in tok.upper(), for the three level keywords
UpperHas(tok, kw) ==
    CASE kw = "ERROR" ->
             tok \in ErrorNames \cup JsErrorNames \cup {"ERROR", "error", "Error"}
      [] kw = "WARNING" -> tok \in {"WARNING", "Warning"}
      [] kw = "INFO" -> tok \in {"INFO", "info"}
      [] OTHER -> FALSE

LineUpperHas(line, kw) == \E i \in 1..Len(line) : UpperHas(line[i], kw)

RECURSIVE DetectLogLevelFirstWord(_)
DetectLogLevelFirstWord(line) ==
    IF line = <<>> THEN "UNKNOWN"
    ELSE IF LineUpperHas(<<Head(line)>>, "ERROR") THEN "ERROR"
    ELSE IF LineUpperHas(<<Head(line)>>, "WARNING") THEN "WARNING"
    ELSE IF LineUpperHas(<<Head(line)>>, "INFO") THEN "INFO"
    ELSE DetectLogLevelFirstWord(Tail(line))

DetectLogLevel(line) ==
    IF LineUpperHas(line, "ERROR") THEN "ERROR"
    ELSE IF LineUpperHas(line, "WARNING") THEN "WARNING"
    ELSE IF LineUpperHas(line, "INFO") THEN "INFO"
    ELSE "UNKNOWN"

\* re.search(timestamp_pattern, line): the first timestamp of the line
RECURSIVE TimestampMatch(_)
TimestampMatch(line) ==
    IF line = <<>> THEN None
    ELSE IF Head(line) \in TimestampToks THEN Some(Head(line))
    ELSE TimestampMatch(Tail(line))

ParseLogLine(line) ==
    [timestamp |-> TimestampMatch(line),
     content |-> Strip(line),
     level |-> DetectLogLevel(line)]

RECURSIVE ParseLogs(_)
ParseLogs(lines) ==
    IF lines = <<>> THEN <<>>
    ELSE IF Strip(Head(lines)) # <<>>
         THEN <<ParseLogLine(Head(lines))>> \o ParseLogs(Tail(lines))
         ELSE ParseLogs(Tail(lines))

\* index of the last token of the line that holds position i (i - 1 when
\* position i is a line break or the end of the text): where .+ stops
RECURSIVE LineEnd(_, _)
LineEnd(t, i) ==
    IF i > Len(t) \/ t[i] = NL THEN i - 1 ELSE LineEnd(t, i + 1)

\* t[i] exists and is matched by "."
Dot(t, i) == i <= Len(t) /\ t[i] # NL

\* places where \n\w+Error: .+ can start after a traceback header at i
PythonTails(t, i) ==
    {j \in (i + 2)..Len(t) :
        /\ t[j] = NL
        /\ j + 4 <= Len(t)
        /\ t[j + 1] \in ErrorNames
        /\ t[j + 2] = ":"
        /\ t[j + 3] = " "
        /\ Dot(t, j + 4)}

Min(S) == CHOOSE x \in S : \A y \in S : x <= y

\* [\s\S]+? is lazy: the match ends with the first tail
PythonEnd(t, tails) == IF tails # {} THEN LineEnd(t, Min(tails) + 4) ELSE 0

\* the end of the match of ERROR_PATTERNS[error_type] that starts at i, or 0
MatchEnd(error_type, t, i) ==
    CASE error_type = "python" ->
             IF t[i] = TracebackHeader THEN PythonEnd(t, PythonTails(t, i)) ELSE 0
      [] error_type = "javascript" ->
             IF t[i] \in JsErrorNames /\ i + 2 <= Len(t) /\ t[i + 1] = ":"
                /\ Dot(t, i + 2)
             THEN LineEnd(t, i + 2)
             ELSE 0
      [] error_type = "api" ->
             IF t[i] \in StatusToks /\ i + 4 <= Len(t) /\ t[i + 1] = " "
                /\ t[i + 2] \in ApiWords /\ t[i + 3] = ":" /\ Dot(t, i + 4)
             THEN LineEnd(t, i + 4)
             ELSE 0

\* re.finditer: the non-overlapping matches from position pos on, leftmost first
RECURSIVE FindIter(_, _, _)

MatchSpan(error_type, t, i, e) ==
    <<SubSeq(t, i, e)>> \o FindIter(error_type, t, e + 1)

FirstMatch(error_type, t, starts) ==
    IF starts = {} THEN <<>>
    ELSE MatchSpan(error_type, t, Min(starts), MatchEnd(error_type, t, Min(starts)))

FindIter(error_type, t, pos) ==
    FirstMatch(error_type, t,
               {i \in pos..Len(t) : MatchEnd(error_type, t, i) > 0})

\* re.search(r"line (\d+)", error_text)
RECURSIVE ExtractLineNumber(_)
ExtractLineNumber(error_text) ==
    IF error_text = <<>> THEN None
    ELSE IF Head(error_text) = FrameTok THEN Some(12)
    ELSE ExtractLineNumber(Tail(error_text))

GenerateSuggestion(error_type, error_text) ==
    IF "ImportError" \in Range(error_text)
    THEN "Check if the required package is installed and accessible"
    ELSE IF "SyntaxError" \in Range(error_text)
    THEN "Review the code syntax at the indicated line"
    ELSE IF "TypeError" \in Range(error_text)
    THEN "Verify the data types of the variables being used"
    ELSE "Review the error message and surrounding code context"

ErrorDetail(error_type, error_text) ==
    [error_type |-> error_type,
     message |-> error_text,
     line_number |-> ExtractLineNumber(error_text),
     suggestion |-> GenerateSuggestion(error_type, error_text)]

ErrorPatternOrderByName == <<"api", "javascript", "python">>

\* ERROR_PATTERNS.items(): the keys in insertion order
ErrorPatternOrder == <<"python", "javascript", "api">>

Details(error_type, matches) ==
    [k \in 1..Len(matches) |-> ErrorDetail(error_type, matches[k])]

MatchesOf(error_type, t) == Details(error_type, FindIter(error_type, t, 1))

ErrorsIn(t) ==
    Flatten([p \in 1..Len(ErrorPatternOrder) |->
                MatchesOf(ErrorPatternOrder[p], t)])

ExtractErrors(lines) == ErrorsIn(Join(lines, <<NL>>))

TimelineEvent(log) ==
    [time |-> log.timestamp[1], event |-> log.content, level |-> log.level]

\* sorted(..., key=time) is stable: an event goes after every event whose
\* key is not greater
RECURSIVE InsertSorted(_, _)
InsertSorted(sorted, ev) ==
    IF sorted = <<>> THEN <<ev>>
    ELSE IF StrLeq(Head(sorted).time, ev.time)
         THEN <<Head(sorted)>> \o InsertSorted(Tail(sorted), ev)
         ELSE <<ev>> \o sorted

RECURSIVE SortedByTime(_)
SortedByTime(timeline) ==
    IF timeline = <<>> THEN <<>>
    ELSE InsertSorted(SortedByTime(SubSeq(timeline, 1, Len(timeline) - 1)),
                      timeline[Len(timeline)])

HasTimestamp(log) == log.timestamp # None

Events(stamped) == [k \in 1..Len(stamped) |-> TimelineEvent(stamped[k])]

CreateTimelineUnsorted(parsed_logs) == Events(SelectSeq(parsed_logs, HasTimestamp))

CreateTimeline(parsed_logs) ==
    SortedByTime(Events(SelectSeq(parsed_logs, HasTimestamp)))

Levels == {"ERROR", "WARNING", "INFO", "UNKNOWN"}

CountLevelKnown(parsed_logs, lv) ==
    IF lv = "UNKNOWN" THEN 0
    ELSE Cardinality({k \in 1..Len(parsed_logs) : parsed_logs[k].level = lv})

CountLevel(parsed_logs, lv) ==
    Cardinality({k \in 1..Len(parsed_logs) : parsed_logs[k].level = lv})

\* error_rate is the fraction levels["ERROR"] / len(parsed_logs), kept as
\* numerator and denominator; 0 is 0/1
CreateSummary(parsed_logs) ==
    [total_logs |-> Len(parsed_logs),
     level_distribution |-> [lv \in Levels |-> CountLevel(parsed_logs, lv)],
     error_rate |-> IF parsed_logs # <<>>
                    THEN [num |-> CountLevel(parsed_logs, "ERROR"),
                          den |-> Len(parsed_logs)]
                    ELSE [num |-> 0, den |-> 1]]

\* the dictionary analyze_logs returns
LogAnalysis(parsed_logs, errors) ==
    [total_entries |-> Len(parsed_logs),
     error_count |-> Len(errors),
     errors |-> errors,
     timeline |-> CreateTimeline(parsed_logs),
     summary |-> CreateSummary(parsed_logs)]

AnalyzeLogs(lines) == LogAnalysis(ParseLogs(lines), ExtractErrors(lines))

(***************************************************************************)
(* CodeService (src/app/services/code_service.py).                         *)
(* ast.parse is modelled on a fragment of Python: import statements (one   *)
(* line, or a parenthesised from-import over several lines), simple        *)
(* statements, and def blocks whose body is indented by one blank.         *)
(***************************************************************************)
DefHeader == "def f():"

SimpleStmts == {"x = 1", "b"}

Indented(line) == line # <<>> /\ IsBlank(line[1]) /\ Strip(line) # <<>>

\* the statement a stripped line holds, by its first token
KindOf(s) ==
    IF s = <<>> THEN "blank"
    ELSE IF s[1] = "import" /\ Len(s) >= 3 /\ IsBlank(s[2]) THEN "import"
    ELSE IF s[1] = "from" /\ Len(s) >= 3 /\ IsBlank(s[2])
         THEN IF s[Len(s)] = "(" THEN "from_open" ELSE "from"
    ELSE IF s = <<DefHeader>> THEN "def"
    ELSE IF s = <<")">> THEN "close"
    ELSE IF Len(s) = 1 /\ s[1] \in SimpleStmts THEN "simple"
    ELSE "bad"

LineKind(line) == KindOf(Strip(line))

\* the words of a line: its tokens that are not blanks
Words(line) == SelectSeq(line, LAMBDA tok : ~IsBlank(tok))

\* ast.unparse of the import statement with words w
UnparseWords(w) ==
    IF w[1] = "import" THEN <<"import", " ", w[2]>>
    ELSE <<"from", " ", w[2], " ", "import", " ", w[4]>>

\* ast.unparse of the import statement a line holds
UnparseImport(line) == UnparseWords(Words(line))

\* ast.unparse of a parenthesised from-import with the given names
UnparseFromOpen(line, names) ==
    <<"from", " ", Words(line)[2], " ", "import", " ">>
    \o Join([k \in 1..Len(names) |-> <<names[k]>>], <<",", " ">>)

\* the entry analyze_structure records for the import statement with words w
NameOfWords(w) == IF w[1] = "import" THEN <<w[2]>> ELSE <<w[2], ".", w[4]>>

ImportName(stmt) == NameOfWords(Words(stmt))

ParseInit ==
    [ok |-> TRUE, mode |-> "top", top |-> <<>>, nested |-> <<>>,
     functions |-> <<>>, open |-> <<>>, names |-> <<>>, lineno |-> 0,
     unparsed |-> <<>>]

ParseFail(st) == [st EXCEPT !.ok = FALSE]

\* a statement of kind k at module level (ast.unparse puts an empty line
\* before a def that is not the first statement)
ParseTop(st, line, k) ==
    IF Indented(line) THEN ParseFail(st)
    ELSE IF k \in {"import", "from"}
         THEN [st EXCEPT !.mode = "top",
                         !.top = Append(@, UnparseImport(line)),
                         !.unparsed = Append(@, UnparseImport(line))]
    ELSE IF k = "from_open"
         THEN [st EXCEPT !.mode = "paren", !.open = line, !.names = <<>>]
    ELSE IF k = "def"
         THEN [st EXCEPT !.mode = "needbody",
                         !.functions = Append(@, [name |-> "f", args |-> 0,
                                                  line_number |-> st.lineno]),
                         !.unparsed = IF @ = <<>> THEN <<<<DefHeader>>>>
                                      ELSE @ \o <<<<>>, <<DefHeader>>>>]
    ELSE IF k = "simple"
         THEN [st EXCEPT !.mode = "top", !.unparsed = Append(@, Strip(line))]
    ELSE ParseFail(st)

\* a statement of kind k in the body of a def
ParseBody(st, line, k) ==
    IF k \in {"import", "from"}
    THEN [st EXCEPT !.mode = "body",
                    !.nested = Append(@, UnparseImport(line)),
                    !.unparsed = Append(@, <<"    ">> \o UnparseImport(line))]
    ELSE IF k = "simple"
         THEN [st EXCEPT !.mode = "body",
                         !.unparsed = Append(@, <<"    ">> \o Strip(line))]
    ELSE ParseFail(st)

\* a line of kind k between the parentheses of a from-import (a second name
\* would need a comma, which no line carries)
ParseParen(st, line, k) ==
    IF k = "blank" THEN st
    ELSE IF Strip(line) = <<"b">> /\ st.names = <<>>
         THEN [st EXCEPT !.names = Append(@, "b")]
    ELSE IF k = "close" /\ st.names # <<>>
         THEN [st EXCEPT !.mode = "top",
                         !.top = Append(@, UnparseFromOpen(st.open, st.names)),
                         !.unparsed = Append(@, UnparseFromOpen(st.open, st.names))]
    ELSE ParseFail(st)

\* the parser's step on a line of kind k
ParseKind(st, line, k) ==
    IF ~st.ok THEN st
    ELSE IF st.mode = "paren" THEN ParseParen(st, line, k)
    ELSE IF k = "blank" THEN st
    ELSE IF st.mode = "needbody"
         THEN IF Indented(line) THEN ParseBody(st, line, k) ELSE ParseFail(st)
    ELSE IF st.mode = "body" /\ Indented(line) THEN ParseBody(st, line, k)
    ELSE ParseTop(st, line, k)

ParseLine(st, line) ==
    ParseKind([st EXCEPT !.lineno = @ + 1], line, LineKind(line))

RECURSIVE ParseLines(_, _)
ParseLines(st, lines) ==
    IF lines = <<>> THEN st ELSE ParseLines(ParseLine(st, Head(lines)), Tail(lines))

\* what the parser has when the text ends: ok is FALSE when ast.parse raises
\* SyntaxError; the import nodes are listed in the order of ast.walk (module
\* level first, then nested)
ParseResult(st) ==
    [ok |-> st.ok /\ st.mode \in {"top", "body"},
     imports |-> st.top \o st.nested,
     functions |-> st.functions,
     unparsed |-> st.unparsed]

\* ast.parse(code)
AstParse(code) == ParseResult(ParseLines(ParseInit, code))

ParseCode(code) == AstParse(code)

AnalyzeStructure(tree) ==
    [imports |-> [k \in 1..Len(tree.imports) |-> ImportName(tree.imports[k])],
     functions |-> tree.functions,
     classes |-> <<>>,
     complexity |-> 0]

\* the tokens of unparsed import statements, in the order of Python's
\* string comparison
TokenOrder == <<" ", ",", "a", "b", "from", "import", "os", "sys">>

TokenRank(tok) == CHOOSE i \in 1..Len(TokenOrder) : TokenOrder[i] = tok

\* a < b on unparsed import statements
RECURSIVE StmtLess(_, _)
StmtLess(a, b) ==
    IF a = <<>> THEN b # <<>>
    ELSE IF b = <<>> THEN FALSE
    ELSE IF Head(a) = Head(b) THEN StmtLess(Tail(a), Tail(b))
    ELSE TokenRank(Head(a)) < TokenRank(Head(b))

RECURSIVE SortedStmts(_)
SortedStmts(S) ==
    IF S = {} THEN <<>>
    ELSE LET least == CHOOSE x \in S : \A y \in S \ {x} : StmtLess(x, y)
         IN  <<least>> \o SortedStmts(S \ {least})

\* sorted(set(imports))
SortedSet(imports) == SortedStmts(Range(imports))

\* line.strip().startswith(("import ", "from "))
IsImportLine(line) ==
    LET s == Strip(line)
    IN  Len(s) >= 2 /\ s[1] \in {"import", "from"} /\ IsBlank(s[2])

NotImportLine(line) == ~IsImportLine(line)

\* the text _optimize_imports returns for a parsed tree
Reordered(tree, code) ==
    IF ~tree.ok THEN [ok |-> FALSE, code |-> <<>>]
    ELSE [ok |-> TRUE,
          code |-> SortedSet(tree.imports) \o << <<>> >>
                   \o SelectSeq(code, NotImportLine)]

\* _optimize_imports: ok is FALSE when it raises
OptimizeImports(code) == Reordered(AstParse(code), code)

\* ast.unparse(tree)
Unparsed(tree) ==
    IF ~tree.ok THEN [ok |-> FALSE, code |-> <<>>]
    ELSE [ok |-> TRUE,
          code |-> IF tree.unparsed = <<>> THEN EmptyText ELSE tree.unparsed]

\* _format_code: ast.unparse(ast.parse(code)); ok is FALSE when it raises
FormatCode(code) == Unparsed(AstParse(code))

(***************************************************************************)
(* AIService: prompts (src/app/services/ai_service.py).  A string is a     *)
(* sequence of tokens.  The context argument is None, a string or a dict.  *)
(***************************************************************************)
CtxNone == [type |-> "none"]
CtxStr(val) == [type |-> "str", val |-> val]
CtxDict(items) == [type |-> "dict", items |-> items]

\* bool(context)
Truthy(ctx) ==
    CASE ctx.type = "none" -> FALSE
      [] ctx.type = "str" -> ctx.val # <<>>
      [] ctx.type = "dict" -> ctx.items # <<>>

\* str(n) for the numbers the sample inputs produce
NumToks == <<"0", "1", "2", "3", "4", "5", "6", "7", "8", "9", "10", "11", "12">>

NumTok(n) == NumToks[n + 1]

\* str() of a value of the enhanced context of debug_logs
StrOfErrors(errors) ==
    Join([k \in 1..Len(errors) |->
             <<"{type: ", errors[k].error_type, ", message: ">>
             \o errors[k].message
             \o <<", line_number: ",
                  IF errors[k].line_number = None THEN "None"
                  ELSE NumTok(errors[k].line_number[1]),
                  ", suggestion: ", errors[k].suggestion, "}">>],
         <<", ">>)

StrOfLogAnalysis(la) ==
    <<"{total_entries: ", NumTok(la.total_entries),
      ", error_count: ", NumTok(la.error_count),
      ", error_rate: ", NumTok(la.error_rate.num), "/", NumTok(la.error_rate.den),
      ", level_distribution: {ERROR: ", NumTok(la.level_distribution["ERROR"]),
      ", WARNING: ", NumTok(la.level_distribution["WARNING"]),
      ", INFO: ", NumTok(la.level_distribution["INFO"]),
      ", UNKNOWN: ", NumTok(la.level_distribution["UNKNOWN"]),
      "}, detected_errors: [">>
    \o StrOfErrors(la.detected_errors) \o <<"]}">>

\* str(v) of the item of a context dict
StrOfItem(item) ==
    IF item.k = "user_context"
    THEN IF item.v.type = "none" THEN <<"None">> ELSE item.v.val
    ELSE StrOfLogAnalysis(item.v)

\* ", ".join(f"{k}: {v}" for k, v in context.items())
JoinItems(items) ==
    Join([k \in 1..Len(items) |->
             <<items[k].k, ": ">> \o StrOfItem(items[k])],
         <<", ">>)

\* "Context: " + context if context else "": ok is FALSE when the
\* concatenation raises TypeError (context is no string)
ContextSection(context) ==
    IF ~Truthy(context) THEN [ok |-> TRUE, text |-> <<>>]
    ELSE IF context.type # "str" THEN [ok |-> FALSE, text |-> <<>>]
    ELSE [ok |-> TRUE, text |-> <<"Context: ">> \o context.val]

\* the part of a prompt added for a user_prompt
UserSection(user_prompt) ==
    IF user_prompt # None /\ user_prompt[1] # <<>>
    THEN <<"User's Specific Request:">> \o user_prompt[1]
         \o <<"Please address the user's specific request">>
    ELSE <<>>

\* the f-string of a prompt: the task, the text, the context section, the
\* default tasks, then the user's request
BasePrompt(task, text, section, user_prompt) ==
    IF ~section.ok THEN [ok |-> FALSE, prompt |-> <<>>]
    ELSE [ok |-> TRUE,
          prompt |-> <<task>> \o Join(text, <<NL>>) \o section.text
                     \o <<"Default Analysis Tasks:">> \o UserSection(user_prompt)]

BuildCodeAnalysisPrompt(code, context, user_prompt) ==
    BasePrompt("Analyze the following code:", code, ContextSection(context),
               user_prompt)

BuildLogAnalysisPrompt(log_text, context, user_prompt) ==
    BasePrompt("Analyze the following logs:", log_text, ContextSection(context),
               user_prompt)

\* AIService.analyze_code up to the await: the prompt handed to the model, or
\* ok = FALSE when building it raises (re-raised as HTTPException 500)
CodePrompt(code, context, user_prompt) ==
    BuildCodeAnalysisPrompt(code, context, user_prompt)

\* AIService.analyze_logs up to the await: a dict context is joined into a
\* string first
LogPrompt(log_text, context, user_prompt) ==
    BuildLogAnalysisPrompt(
        log_text,
        IF context.type = "dict" THEN CtxStr(JoinItems(context.items)) ELSE context,
        user_prompt)

(***************************************************************************)
(* The endpoints (src/app/api/v1/endpoints/code_analysis.py and            *)
(* debugging.py).                                                          *)
(***************************************************************************)
\* s.strip() of a text: line breaks are white space too
Max(S) == CHOOSE x \in S : \A y \in S : y <= x

Between(t, dark) == IF dark = {} THEN <<>> ELSE SubSeq(t, Min(dark), Max(dark))

StripFlat(t) == Between(t, {i \in 1..Len(t) : ~IsBlank(t[i]) /\ t[i] # NL})

StripText(text) == StripFlat(Join(text, <<NL>>))

\* not s
IsEmptyStr(text) == text = EmptyText

MissingNoStrip(text) == IsEmptyStr(text)

\* not s or not s.strip()
Missing(text) == IsEmptyStr(text) \/ StripText(text) = <<>>

\* the pre-processing calls of analyze_code, run until one raises
StagesOf(tree, optimized_code) ==
    IF ~tree.ok THEN <<[stage |-> "parse_code", ok |-> FALSE]>>
    ELSE <<[stage |-> "parse_code", ok |-> TRUE],
           [stage |-> "analyze_structure", ok |-> TRUE]>>
         \o IF ~optimized_code.ok
            THEN <<[stage |-> "optimize_imports", ok |-> FALSE]>>
            ELSE <<[stage |-> "optimize_imports", ok |-> TRUE],
                   [stage |-> "format", ok |-> FormatCode(optimized_code.code).ok]>>

CodeStages(code) == StagesOf(ParseCode(code), OptimizeImports(code))

AllOk(done) == \A k \in 1..Len(done) : done[k].ok

\* enhanced_context of analyze_code (function_details holds the functions,
\* none when the code defines none; class_details likewise stays out, as the
\* parser knows no class)
CodeContext(req, code_analysis, optimized_code, formatted_code) ==
    CtxDict(<<[k |-> "user_context", v |-> req.context],
              [k |-> "code_analysis",
               v |-> [structure |-> code_analysis,
                      metrics |->
                          [total_imports |-> Len(code_analysis.imports),
                           total_functions |-> Len(code_analysis.functions),
                           total_classes |-> Len(code_analysis.classes),
                           complexity |-> code_analysis.complexity],
                      improvements |->
                          [optimized_imports |-> optimized_code # req.code,
                           formatting_changes |-> formatted_code # req.code],
                      function_details |-> code_analysis.functions]]>>)

Refactored(req, code_analysis, optimized_code) ==
    CodeContext(req, code_analysis, optimized_code, FormatCode(optimized_code).code)

CodeEnhancedContext(req) ==
    Refactored(req, AnalyzeStructure(ParseCode(req.code)),
               OptimizeImports(req.code).code)

\* enhanced_context of debug_logs
LogContext(req, log_analysis) ==
    CtxDict(<<[k |-> "user_context", v |-> req.context],
              [k |-> "log_analysis",
               v |-> [total_entries |-> log_analysis.total_entries,
                      error_count |-> log_analysis.error_count,
                      error_rate |-> log_analysis.summary.error_rate,
                      level_distribution |->
                          log_analysis.summary.level_distribution,
                      detected_errors |-> log_analysis.errors]]>>)

LogEnhancedContext(req, log_text) == LogContext(req, AnalyzeLogs(log_text))

\* the log text debug_logs works on: request.logs, or the content of the
\* file it names; None when the file is empty or cannot be read
ResolveLogs(req) ==
    IF req.logs.is_path THEN req.logs.file ELSE Some(req.logs.text)

\* the prompt of the first model call of each handler (context=enhanced_context)
EnrichedPrompt(req, text) ==
    IF req.op = "code"
    THEN CodePrompt(req.code, CodeEnhancedContext(req), req.user_prompt)
    ELSE LogPrompt(text, LogEnhancedContext(req, text), None)

FallbackPromptNoContext(req, text) ==
    IF req.op = "code"
    THEN CodePrompt(req.code, CtxNone, req.user_prompt)
    ELSE LogPrompt(text, CtxNone, None)

\* the prompt of the model call of the except branch (context=request.context)
FallbackPrompt(req, text) ==
    IF req.op = "code"
    THEN CodePrompt(req.code, req.context, req.user_prompt)
    ELSE LogPrompt(text, req.context, None)

HttpError(status, detail) == [kind |-> "error", status |-> status, detail |-> detail]

Returned(response) == [kind |-> "response", response |-> response]

Call(prompt) == [prompt |-> prompt, result |-> None]

Raises == [raises |-> TRUE, text |-> EmptyText]

Replies(text) == [raises |-> FALSE, text |-> text]

(***************************************************************************)
(* Inputs of the service functions, and the specifications that apply      *)
(* them.                                                                   *)
(***************************************************************************)
MaxReplyLines == 4

ReplyLines ==
    {<<>>, <<Fence>>, <<Fence, "Python">>, <<Fence, " ">>, <<" ", Fence>>,
     <<"print(1)">>}

ReplyTexts == NonEmptySeqsUpTo(ReplyLines, MaxReplyLines)

MaxLogLines == 4

LogLines ==
    {<<>>,
     <<" ">>,
     <<"2024-01-01 10:00:00", " ", "INFO", " ", "started">>,
     <<"2024-01-02 00:00:00", " ", "Warning", " ", "error", " ", "info">>,
     <<"2024-01-01 09:59:59", " ", "retry", " ", "2024-01-02 00:00:00">>,
     <<"info", " ", "Warning">>,
     <<TracebackHeader>>,
     <<" ", FrameTok>>,
     <<"ValueError", ":", " ", "bad">>,
     <<"TypeError", ":", " ", "bad">>,
     <<"404", " ", "NOT_FOUND", ":", " ", "missing">>}

LogTexts == NonEmptySeqsUpTo(LogLines, MaxLogLines)

MaxSourceLines == 4

SourceLines ==
    {<<>>,
     <<"import", " ", "os">>,
     <<"import", " ", " ", "sys">>,
     <<"from", " ", "a", " ", "import", " ", "b">>,
     <<"from", " ", "a", " ", "import", " ", "(">>,
     <<" ", "b">>,
     <<")">>,
     <<DefHeader>>,
     <<" ", "import", " ", "os">>,
     <<"x = 1">>}

SourceTexts == NonEmptySeqsUpTo(SourceLines, MaxSourceLines)

Idle ==
    /\ request = None /\ pc = "idle" /\ stages = <<>> /\ modelCalls = <<>>
    /\ outcome = None

\* AIService._parse_ai_response on the reply text
InitReply ==
    /\ Idle
    /\ reply \in ReplyTexts /\ parsed = None
    /\ logs = None /\ analysis = None /\ source = None /\ optimized = <<>>

ParseReply ==
    /\ parsed = None
    /\ parsed' = Some(ParseAIResponse(reply))
    /\ UNCHANGED <<request, pc, stages, modelCalls, outcome, reply, logs,
                   analysis, source, optimized>>

NextReply == ParseReply

SpecReply == InitReply /\ [][NextReply]_vars

MaxAdviceLines == 3

\* AIService._parse_ai_response on a reply of list items and advice
InitAdvice ==
    /\ Idle
    /\ reply \in NonEmptySeqsUpTo(
           {<<>>,
            <<"1", ".", " ", "should", " ", "fix">>,
            <<"1", ".">>,
            <<"1", "0", ".", " ", "fix">>,
            <<" ", "-", " ", "Note", " ", "fix">>,
            <<"*">>,
            <<"BULLET", " ", "should", " ", "fix">>,
            <<"A_CIRC", "EURO", "CENT", " ", "fix">>,
            <<" ", "Consider", " ", "keyboard">>,
            <<"fix">>},
           MaxAdviceLines)
    /\ parsed = None
    /\ logs = None /\ analysis = None /\ source = None /\ optimized = <<>>

SpecAdvice == InitAdvice /\ [][NextReply]_vars

\* LogService.analyze_logs on the log text
InitLogs ==
    /\ Idle
    /\ reply = None /\ parsed = None
    /\ logs \in LogTexts /\ analysis = None
    /\ source = None /\ optimized = <<>>

AnalyzeLogText ==
    /\ analysis = None
    /\ analysis' = Some(AnalyzeLogs(logs))
    /\ UNCHANGED <<request, pc, stages, modelCalls, outcome, reply, parsed,
                   logs, source, optimized>>

NextLogs == AnalyzeLogText

SpecLogs == InitLogs /\ [][NextLogs]_vars

\* CodeService.refactor_code(code, "optimize_imports"), then again on its
\* own output
InitImports ==
    /\ Idle
    /\ reply = None /\ parsed = None /\ logs = None /\ analysis = None
    /\ source \in SourceTexts /\ optimized = <<>>

Optimize ==
    /\ optimized = <<>>
    /\ optimized' = <<OptimizeImports(source)>>
    /\ UNCHANGED <<request, pc, stages, modelCalls, outcome, reply, parsed,
                   logs, analysis, source>>

OptimizeAgain ==
    /\ Len(optimized) = 1
    /\ optimized[1].ok
    /\ optimized' = Append(optimized, OptimizeImports(optimized[1].code))
    /\ UNCHANGED <<request, pc, stages, modelCalls, outcome, reply, parsed,
                   logs, analysis, source>>

NextImports == Optimize \/ OptimizeAgain

SpecImports == InitImports /\ [][NextImports]_vars

(***************************************************************************)
(* The request handlers.  One request is followed from its arrival to the  *)
(* answer its caller gets; the handler is suspended only while it awaits   *)
(* the model.                                                              *)
(***************************************************************************)
SampleCodes ==
    {EmptyText,
     << <<" ">>, <<>> >>,
     << <<"import", " ", " ", "sys">>, <<"import", " ", "os">>, <<"x = 1">> >>,
     << <<DefHeader>>, <<" ", "import", " ", "os">> >>,
     << <<"x = 1">>, <<")">> >>}

SampleLogs ==
    {EmptyText,
     << <<" ">>, <<>> >>,
     << <<"2024-01-01 10:00:00", " ", "INFO", " ", "started">> >>,
     << <<TracebackHeader>>, <<" ", FrameTok>>, <<"TypeError", ":", " ", "bad">> >>}

\* request.logs: a text, or the path of a file (file is None when the file
\* is empty or unreadable, else its content, which is not the empty string)
LogInputs ==
    {[is_path |-> FALSE, text |-> t, file |-> None] : t \in SampleLogs}
    \cup {[is_path |-> TRUE, text |-> <<<<"/var/log/app.log">>>>, file |-> f] :
             f \in {None} \cup {Some(t) : t \in SampleLogs \ {EmptyText}}}

SampleContexts == {CtxNone, CtxStr(<<>>), CtxStr(<<"focus on retries">>)}

SampleUserPrompts == {None, Some(<<"explain the timeout">>)}

SampleReplies ==
    {EmptyText,
     << <<"1. check the import">> >>,
     << <<Fence, "Python">>, <<"print(1)">>, <<Fence>> >>}

\* what awaiting generate_content_async gives: an exception or a reply text
ModelResults == {Raises} \cup {Replies(t) : t \in SampleReplies}

Requests ==
    {[op |-> "code", code |-> c, logs |-> [is_path |-> FALSE, text |-> EmptyText,
                                          file |-> None],
      context |-> x, user_prompt |-> u] :
         c \in SampleCodes, x \in SampleContexts, u \in SampleUserPrompts}
    \cup
    {[op |-> "logs", code |-> EmptyText, logs |-> l, context |-> x,
      user_prompt |-> u] :
         l \in LogInputs, x \in SampleContexts \ {CtxNone}, u \in SampleUserPrompts}

Init ==
    /\ request \in {Some(r) : r \in Requests}
    /\ pc = "start"
    /\ stages = <<>>
    /\ modelCalls = <<>>
    /\ outcome = None
    /\ reply = None /\ parsed = None /\ logs = None /\ analysis = None
    /\ source = None /\ optimized = <<>>

\* the handler's own state
Handler == [pc |-> pc, stages |-> stages, modelCalls |-> modelCalls,
            outcome |-> outcome]

\* raise HTTPException(status_code, detail), re-raised by the outer handler
Fail(h, status, detail) ==
    [h EXCEPT !.pc = "done", !.outcome = Some(HttpError(status, detail))]

\* return response
Return(h, response) ==
    [h EXCEPT !.pc = "done", !.outcome = Some(Returned(response))]

\* the model is called with a prompt that was built; the HTTPException 500
\* for a prompt that could not be built leaves the handler
IssueFallback(h, fallback) ==
    IF fallback.ok
    THEN [h EXCEPT !.pc = "await_fallback",
                   !.modelCalls = Append(@, Call(fallback.prompt))]
    ELSE Fail(h, 500, "prompt")

\* the except branch of the inner try: the model is called with
\* request.context
CallFallback(h, req, text) == IssueFallback(h, FallbackPrompt(req, text))

\* the model is called with the enriched prompt; when building it raised,
\* the HTTPException 500 of the service is caught by the inner except
IssueEnriched(h, req, text, enriched) ==
    IF enriched.ok
    THEN [h EXCEPT !.pc = "await_enriched",
                   !.modelCalls = Append(@, Call(enriched.prompt))]
    ELSE CallFallback(h, req, text)

\* the inner try after pre-processing: the model is called with the
\* enhanced context
CallEnriched(h, req, text) == IssueEnriched(h, req, text, EnrichedPrompt(req, text))

\* the inner try of either handler once its pre-processing calls have run
AfterStages(h, req, text) ==
    IF AllOk(h.stages) THEN CallEnriched(h, req, text) ELSE CallFallback(h, req, text)

\* analyze_code from the arrival of the request to its first await
AnalyzeCodeStart(h, req) ==
    IF Missing(req.code)
    THEN Fail(h, 400, "No code provided for analysis")
    ELSE AfterStages([h EXCEPT !.stages = CodeStages(req.code)], req, req.code)

\* debug_logs once the log text is known (None: the file could not be read);
\* raised tells whether LogService.analyze_logs raises
DebugLogsText(h, req, text, raised) ==
    IF text = None
    THEN Fail(h, 400, "Unable to read log file or file is empty")
    ELSE IF Missing(text[1])
    THEN Fail(h, 400, "No logs provided for analysis")
    ELSE AfterStages([h EXCEPT !.stages =
                          <<[stage |-> "analyze_logs", ok |-> ~raised]>>],
                     req, text[1])

\* debug_logs from the arrival of the request to its first await
DebugLogsStart(h, req, raised) == DebugLogsText(h, req, ResolveLogs(req), raised)

\* the text the model calls of a request are about
RequestText(req) == IF req.op = "code" THEN req.code ELSE ResolveLogs(req)[1]

WithResult(h, result) ==
    [h EXCEPT !.modelCalls[Len(h.modelCalls)].result = Some(result)]

\* the model call of the inner try ends: a reply with content is returned;
\* an exception, and the HTTPException raised for a reply without content,
\* are caught by the inner except, which calls the model again
AfterEnriched(h, req, result) ==
    IF result.raises \/ IsEmptyStr(result.text)
    THEN CallFallback(WithResult(h, result), req, RequestText(req))
    ELSE Return(WithResult(h, result), ParseAIResponse(result.text))

AfterFallbackRetry(h, req, result) ==
    IF result.raises
    THEN IF Len(h.modelCalls) < 3
         THEN CallFallback(WithResult(h, result), req, RequestText(req))
         ELSE Fail(WithResult(h, result), 500, "model call failed")
    ELSE Return(WithResult(h, result), ParseAIResponse(result.text))

\* the model call of the except branch ends: its reply is returned as it
\* is; an exception leaves the handler as HTTPException 500
AfterFallback(h, req, result) ==
    IF result.raises
    THEN Fail(WithResult(h, result), 500, "model call failed")
    ELSE Return(WithResult(h, result), ParseAIResponse(result.text))

Becomes(h) ==
    /\ pc' = h.pc
    /\ stages' = h.stages
    /\ modelCalls' = h.modelCalls
    /\ outcome' = h.outcome
    /\ UNCHANGED <<request, reply, parsed, logs, analysis, source, optimized>>

AnalyzeCode ==
    /\ pc = "start"
    /\ request[1].op = "code"
    /\ Becomes(AnalyzeCodeStart(Handler, request[1]))

DebugLogs ==
    /\ pc = "start"
    /\ request[1].op = "logs"
    /\ \E raised \in BOOLEAN : Becomes(DebugLogsStart(Handler, request[1], raised))

EnrichedReturns ==
    /\ pc = "await_enriched"
    /\ \E result \in ModelResults :
           Becomes(AfterEnriched(Handler, request[1], result))

FallbackReturns ==
    /\ pc = "await_fallback"
    /\ \E result \in ModelResults :
           Becomes(AfterFallback(Handler, request[1], result))

Next == AnalyzeCode \/ DebugLogs \/ EnrichedReturns \/ FallbackReturns

Spec == Init /\ [][Next]_vars

\* The handler runs once the request is in, and every await of the model
\* ends: generate_content_async returns or raises.  A request that waits
\* (pc = "start") enables its handler's first step and nothing else, and
\* that step always leaves pc = "start": weak fairness of AnalyzeCode and
\* DebugLogs is the same as leaving "start" again and again.
SpecFair ==
    /\ Spec
    /\ []<>(pc # "start")
    /\ WF_vars(EnrichedReturns) /\ WF_vars(FallbackReturns)

(***************************************************************************)
(* Properties of the request handlers.                                     *)
(***************************************************************************)
\* sub occurs in seq as a contiguous run of tokens
Contains(seq, sub) ==
    \E i \in 0..(Len(seq) - Len(sub)) : SubSeq(seq, i + 1, i + Len(sub)) = sub

\* the request has been answered with an AIResponse
Answered == outcome # None /\ outcome[1].kind = "response"

\* the request has been answered with an HTTP error of the given status
Failed(status) ==
    outcome # None /\ outcome[1].kind = "error" /\ outcome[1].status = status

\* the model call whose reply the handler last looked at
LastCall == modelCalls[Len(modelCalls)]

\* C1 as stated: in AnalyzeCode and in AnalyzeLogs the external model is
\* invoked at most once per request; when the model call raises (or its
\* reply is rejected) the request ends with an error and no second call is
\* made.
C1_AtMostOneModelCall ==
    /\ Len(modelCalls) <= 1
    /\ \A k \in 1..Len(modelCalls) :
           (modelCalls[k].result # None /\ modelCalls[k].result[1].raises)
           => pc = "done" /\ Failed(500)

\* C2 as stated: on the enriched path and on the fallback path of both
\* operations, a model reply without content makes the operation fail with
\* HTTP 500; an AIResponse with empty content is never returned.
C2_EmptyReplyRejected ==
    /\ Answered => outcome[1].response.content # EmptyText
    /\ (/\ pc = "done"
        /\ modelCalls # <<>>
        /\ LastCall.result # None
        /\ ~LastCall.result[1].raises
        /\ IsEmptyStr(LastCall.result[1].text))
       => Failed(500)

\* every character of the text is white space (or the text has none)
BlankOnly(text) ==
    \A i \in 1..Len(text) : \A k \in 1..Len(text[i]) : text[i][k] = " "

\* C3: AnalyzeCode with a code field that is empty or holds white space only
\* fails with HTTP 400 (the outer handlers leave the status alone), and
\* neither a model call nor a pre-processing call has happened by then.
C3_BlankCodeRejected ==
    (request[1].op = "code" /\ BlankOnly(request[1].code)) =>
        /\ modelCalls = <<>>
        /\ stages = <<>>
        /\ pc \in {"start", "done"}
        /\ pc = "done" => outcome = Some(HttpError(400, "No code provided for analysis"))

\* a code of spaces and a line break has been refused
C3_Witness ==
    /\ request[1].op = "code"
    /\ request[1].code = << <<" ">>, <<>> >>
    /\ pc = "done"
    /\ Failed(400)
    /\ modelCalls = <<>>

\* C4 as stated: in AnalyzeCode, whenever parsing, structure analysis and
\* both refactors succeed on the submitted code, the AIResponse returned
\* comes from a model call whose prompt holds the structured analysis; the
\* fallback call with the raw context is made only when pre-processing
\* failed.
C4_EnrichedWhenPreprocessingOk ==
    (/\ request[1].op = "code"
     /\ Len(stages) = 4
     /\ AllOk(stages)
     /\ Answered)
    => Contains(LastCall.prompt, <<"code_analysis">>)

\* the only pre-processing call of the request was analyze_logs, and it raised
LogPreprocessingRaised ==
    /\ request[1].op = "logs"
    /\ stages = <<[stage |-> "analyze_logs", ok |-> FALSE]>>

\* the prompt holds the section made of the request's own context, and
\* nothing of the log analysis
RawContextOnly(prompt) ==
    /\ request[1].context.type = "str" /\ request[1].context.val # <<>>
       => Contains(prompt, <<"Context: ">> \o request[1].context.val)
    /\ ~(request[1].context.type = "str" /\ request[1].context.val # <<>>)
       => ~Contains(prompt, <<"Context: ">>)
    /\ ~Contains(prompt, <<"log_analysis">>)
    /\ ~Contains(prompt, <<"user_context">>)

\* C5: when log pre-processing raises for a non-empty log text and the model
\* call then gives a reply with content, AnalyzeLogs returns the AIResponse
\* built from that reply, the one model call made was given the request's
\* raw context only, and the caller sees no error.
C5_FallbackWhenLogAnalysisRaises ==
    (/\ LogPreprocessingRaised
     /\ modelCalls # <<>>
     /\ modelCalls[1].result # None
     /\ ~modelCalls[1].result[1].raises
     /\ ~IsEmptyStr(modelCalls[1].result[1].text))
    => /\ pc = "done"
       /\ Answered
       /\ outcome[1].response.content = modelCalls[1].result[1].text
       /\ Len(modelCalls) = 1
       /\ RawContextOnly(modelCalls[1].prompt)
       /\ Contains(modelCalls[1].prompt, Join(RequestText(request[1]), <<NL>>))

\* log analysis raised for a request with a context of its own, and the
\* reply of the fallback call has been returned
C5_Witness ==
    /\ LogPreprocessingRaised
    /\ request[1].context = CtxStr(<<"focus on retries">>)
    /\ pc = "done"
    /\ Answered
    /\ outcome[1].response.content = << <<"1. check the import">> >>
    /\ Len(modelCalls) = 1

\* C6 as stated: in AnalyzeLogs, when the request carries a non-empty
\* user_prompt, every prompt sent to the model for that request, on the
\* enriched path and on the fallback path, holds that user_prompt.
C6_UserPromptInEveryPrompt ==
    (/\ request[1].op = "logs"
     /\ request[1].user_prompt # None
     /\ request[1].user_prompt[1] # <<>>)
    => \A k \in 1..Len(modelCalls) :
           Contains(modelCalls[k].prompt, request[1].user_prompt[1])

(***************************************************************************)
(* Properties of the service functions.                                    *)
(***************************************************************************)
\* the lines of a reply that hold a key-point keyword, in any case
KeyPointLines(text) ==
    {i \in 1..Len(text) : \E k \in 1..Len(text[i]) :
        text[i][k] \in {"Note", "keyboard", "recommendation", "IMPORTANT"}}

\* the lines of a text with the given numbers, ascending, joined by newline
RECURSIVE JoinedLines(_, _)
JoinedLines(text, S) ==
    IF S = {} THEN <<>>
    ELSE IF Cardinality(S) = 1 THEN text[CHOOSE i \in S : TRUE]
    ELSE text[CHOOSE i \in S : \A j \in S : i <= j] \o <<"\n">>
         \o JoinedLines(text, S \ {CHOOSE i \in S : \A j \in S : i <= j})

\* C11 as stated: the AIResponse returned carries a chat_context field that
\* equals the newline-joined lines of the reply that hold one of the
\* keywords important, key, critical, note, recommendation (in any case),
\* in line order, whenever a line matches; it is absent when none does.
C11_ChatContextReturned ==
    parsed # None =>
        IF KeyPointLines(reply) # {}
        THEN /\ "chat_context" \in DOMAIN parsed[1]
             /\ parsed[1].chat_context = Some(JoinedLines(reply, KeyPointLines(reply)))
        ELSE \/ "chat_context" \notin DOMAIN parsed[1]
             \/ parsed[1].chat_context = None

\* a list item: a digit, a dot, and text after them
NumberedLine(line) ==
    Len(line) > 2 /\ line[1] \in {"0", "1"} /\ line[2] = "."

\* a line that starts with a bullet marker: -, * or the bullet glyph
BulletedLine(line) == line # <<>> /\ line[1] \in {"-", "*", "BULLET"}

KeywordLine(line) ==
    \E k \in 1..Len(line) :
        line[k] \in {"should", "Consider", "recommendation", "Try"}

\* the suggestion the first matching rule records for a trimmed line
RuleSuggestion(line) ==
    IF line = <<>> THEN <<>>
    ELSE IF NumberedLine(line) THEN <<Strip(SubSeq(line, 3, Len(line)))>>
    ELSE IF BulletedLine(line) THEN <<Strip(SubSeq(line, 2, Len(line)))>>
    ELSE IF KeywordLine(line) THEN <<line>>
    ELSE <<>>

RECURSIVE RuleSuggestions(_)
RuleSuggestions(text) ==
    IF text = <<>> THEN <<>>
    ELSE RuleSuggestion(Strip(Head(text))) \o RuleSuggestions(Tail(text))

\* C12 as stated: each non-blank line of the reply is handled by the first
\* matching rule in the order digit-list marker, bullet marker, keyword; a
\* line adds at most one suggestion (a numbered or bulleted line that holds
\* a keyword is recorded once, with its marker stripped, never verbatim), a
\* line that matches no rule adds none, and suggestions are in line order.
C12_FirstMatchingRule ==
    parsed # None => parsed[1].suggestions = RuleSuggestions(reply)

\* the elements of a finite set of integers, ascending
RECURSIVE Ascending(_)
Ascending(S) ==
    IF S = {} THEN <<>>
    ELSE LET least == CHOOSE x \in S : \A y \in S : x <= y
         IN  <<least>> \o Ascending(S \ {least})

FenceLines(text) == {i \in 1..Len(text) : StartsWithFence(text[i])}

\* a fence line opens a block when an even number of fence lines precede it
OpeningFences(text) ==
    {i \in FenceLines(text) :
        Cardinality({j \in FenceLines(text) : j < i}) % 2 = 0}

\* the line that ends the block opened at line i: the next fence line, or the
\* line after the last
BlockEnd(text, i) ==
    LET later == {j \in FenceLines(text) : j > i}
    IN  IF later = {} THEN Len(text) + 1
        ELSE CHOOSE j \in later : \A k \in later : j <= k

\* the snippet of the block opened at line i
BlockSnippet(text, i) ==
    LET tag == Strip(Tail(text[i]))
    IN  [code |-> Join(SubSeq(text, i + 1, BlockEnd(text, i) - 1), <<NL>>),
         language |-> IF tag = <<>> THEN <<"text">> ELSE LowerLine(tag)]

SnippetsOf(text, blocks) ==
    LET order == Ascending(blocks)
    IN  [k \in 1..Len(order) |-> BlockSnippet(text, order[k])]

\* the blocks that hold at least one line (an empty line counts)
FilledBlocks(text) == {i \in OpeningFences(text) : BlockEnd(text, i) > i + 1}

\* C7 as stated: the scan of the model reply emits exactly one snippet per
\* fenced block, closed or still open at the end of the text, so there are as
\* many snippets as opening fences; each carries the block's lines joined by
\* newline and the lower-cased tag of its opening fence, or "text".
C7_OneSnippetPerBlock ==
    parsed # None =>
        /\ Len(parsed[1].code_snippets) = Cardinality(OpeningFences(reply))
        /\ parsed[1].code_snippets = SnippetsOf(reply, OpeningFences(reply))

\* C7 amended: the scan emits exactly one snippet per fenced block that holds
\* at least one line, closed or still open at the end of the text, in order; a
\* block with no line between its fences (or opened by the last line) emits
\* none. Each snippet carries the block's lines joined by newline and the
\* lower-cased tag of its opening fence, or "text".
C7_OneSnippetPerFilledBlock ==
    parsed # None =>
        /\ Len(parsed[1].code_snippets) = Cardinality(FilledBlocks(reply))
        /\ parsed[1].code_snippets = SnippetsOf(reply, FilledBlocks(reply))

\* an empty closed block, then a block with an upper-case tag left open
C7_Witness ==
    /\ parsed # None
    /\ Cardinality(OpeningFences(reply)) = 2
    /\ Len(parsed[1].code_snippets) = 1
    /\ BlockEnd(reply, Len(reply) - 1) = Len(reply) + 1
    /\ parsed[1].code_snippets[1].language = <<"python">>

Count(seq, x) == Cardinality({k \in 1..Len(seq) : seq[k] = x})

\* the non-blank lines of a log text
EntryLines(text) == {i \in 1..Len(text) : Strip(text[i]) # <<>>}

\* the non-blank lines that hold a timestamp
StampedLines(text) ==
    {i \in EntryLines(text) : \E k \in 1..Len(text[i]) : text[i][k] \in TimestampToks}

\* the first timestamp of a line that holds one
FirstTimestamp(line) ==
    line[CHOOSE k \in 1..Len(line) :
            /\ line[k] \in TimestampToks
            /\ \A m \in 1..(k - 1) : line[m] \notin TimestampToks]

\* C8: the timeline analyze_logs returns is in non-decreasing order of the
\* timestamp string and holds exactly the parsed entries that have a
\* timestamp (each as often as it occurs); entries without a timestamp are
\* not in it but are counted in total_entries.
C8_TimelineSorted ==
    analysis # None =>
        LET timeline == analysis[1].timeline
            entries == ParseLogs(logs)
        IN  /\ \A i \in 1..Len(timeline) : \A j \in i..Len(timeline) :
                   TimestampRank(timeline[i].time) <= TimestampRank(timeline[j].time)
            /\ Len(timeline) = Cardinality(StampedLines(logs))
            /\ \A i \in StampedLines(logs) :
                   LET ev == [time |-> FirstTimestamp(logs[i]),
                              event |-> Strip(logs[i]),
                              level |-> DetectLogLevel(logs[i])]
                   IN  Count(timeline, ev)
                       = Cardinality({j \in StampedLines(logs) :
                                         logs[j] = logs[i]})
            /\ analysis[1].total_entries = Cardinality(EntryLines(logs))
            /\ analysis[1].total_entries
               = Len(timeline) + Cardinality(EntryLines(logs) \ StampedLines(logs))

\* a later line carries an earlier timestamp, and a line has none
C8_Witness ==
    /\ analysis # None
    /\ \E i, j \in StampedLines(logs) :
           /\ i < j
           /\ TimestampRank(FirstTimestamp(logs[j]))
              < TimestampRank(FirstTimestamp(logs[i]))
    /\ EntryLines(logs) \ StampedLines(logs) # {}
    /\ Len(analysis[1].timeline) >= 2

\* the place of a pattern in the table
TypeRank(error_type) ==
    CASE error_type = "python" -> 1
      [] error_type = "javascript" -> 2
      [] error_type = "api" -> 3

\* the positions of a text where a message starts
StartsOf(message, t) ==
    {p \in 1..(Len(t) - Len(message) + 1) :
        SubSeq(t, p, p + Len(message) - 1) = message}

\* the messages occur in the text one after the other, without overlap,
\* from the given position on
RECURSIVE OccurInOrder(_, _, _)
OccurInOrder(messages, t, from) ==
    \/ messages = <<>>
    \/ /\ messages # <<>>
       /\ \E p \in StartsOf(Head(messages), t) :
              /\ p >= from
              /\ \A q \in StartsOf(Head(messages), t) : q >= from => p <= q
              /\ OccurInOrder(Tail(messages), t, p + Len(Head(messages)))

MessagesOfType(errors, error_type) ==
    LET same == SelectSeq(errors, LAMBDA e : e.error_type = error_type)
    IN  [k \in 1..Len(same) |-> same[k].message]

\* C13: extract_errors emits its records grouped by pattern in table order,
\* python first, then javascript, then api; within one pattern the records
\* are in the order of their place in the text; the output is not sorted by
\* position across patterns.
C13_GroupedByPattern ==
    analysis # None =>
        LET errors == analysis[1].errors
        IN  /\ \A i, j \in 1..Len(errors) :
                   i < j => TypeRank(errors[i].error_type)
                            <= TypeRank(errors[j].error_type)
            /\ \A error_type \in {"python", "javascript", "api"} :
                   OccurInOrder(MessagesOfType(errors, error_type),
                                Join(logs, <<"\n">>), 1)

\* a javascript match stands before a Python traceback in the text and
\* after it in the records
C13_Witness ==
    /\ analysis # None
    /\ \E i, j \in 1..Len(analysis[1].errors) :
           /\ i < j
           /\ analysis[1].errors[i].error_type = "python"
           /\ analysis[1].errors[j].error_type = "javascript"
           /\ \E p \in StartsOf(analysis[1].errors[i].message, Join(logs, <<"\n">>)) :
              \E q \in StartsOf(analysis[1].errors[j].message, Join(logs, <<"\n">>)) :
                  q < p

\* the level the fixed priority gives a line
PriorityLevel(line) ==
    IF LineUpperHas(line, "ERROR") THEN "ERROR"
    ELSE IF LineUpperHas(line, "WARNING") THEN "WARNING"
    ELSE IF LineUpperHas(line, "INFO") THEN "INFO"
    ELSE "UNKNOWN"

\* C14: the level of every parsed entry follows the fixed priority ERROR,
\* WARNING, INFO, UNKNOWN of case-insensitive substring tests on its line,
\* wherever the keywords stand in the line; a text without any keyword has
\* every count 0 except UNKNOWN and error_rate 0.
C14_LevelPriority ==
    analysis # None =>
        /\ \A lv \in {"ERROR", "WARNING", "INFO", "UNKNOWN"} :
               analysis[1].summary.level_distribution[lv]
               = Cardinality({i \in EntryLines(logs) : PriorityLevel(logs[i]) = lv})
        /\ \A k \in 1..Len(analysis[1].timeline) :
               analysis[1].timeline[k].level
               = PriorityLevel(analysis[1].timeline[k].event)
        /\ (\A i \in EntryLines(logs) : PriorityLevel(logs[i]) = "UNKNOWN")
           => /\ analysis[1].summary.error_rate.num = 0
              /\ \A lv \in {"ERROR", "WARNING", "INFO"} :
                     analysis[1].summary.level_distribution[lv] = 0

\* a line with info before Warning counts as WARNING, and a line with
\* Warning before error as ERROR
C14_Witness ==
    /\ analysis # None
    /\ \E i \in EntryLines(logs) : logs[i] = <<"info", " ", "Warning">>
    /\ analysis[1].summary.level_distribution["WARNING"] >= 1
    /\ \E k \in 1..Len(analysis[1].timeline) :
           /\ analysis[1].timeline[k].level = "ERROR"
           /\ \E a, b \in 1..Len(analysis[1].timeline[k].event) :
                  /\ a < b
                  /\ analysis[1].timeline[k].event[a] = "Warning"
                  /\ analysis[1].timeline[k].event[b] = "error"

\* C15: the four counts of level_distribution sum to summary.total_logs,
\* which equals total_entries, which equals the number of lines of the text
\* that are not blank once trimmed; error_rate lies between 0 and 1 and is
\* 0 when there is no entry.
C15_CountsSumToEntries ==
    analysis # None =>
        LET summary == analysis[1].summary
            levels == summary.level_distribution
        IN  /\ DOMAIN levels = {"ERROR", "WARNING", "INFO", "UNKNOWN"}
            /\ levels["ERROR"] + levels["WARNING"] + levels["INFO"]
               + levels["UNKNOWN"] = summary.total_logs
            /\ summary.total_logs = analysis[1].total_entries
            /\ analysis[1].total_entries = Cardinality(EntryLines(logs))
            /\ summary.error_rate.den > 0
            /\ 0 <= summary.error_rate.num
            /\ summary.error_rate.num <= summary.error_rate.den
            /\ analysis[1].total_entries = 0 => summary.error_rate.num = 0

\* a text with a blank line and entries of three levels, one without keyword
C15_Witness ==
    /\ analysis # None
    /\ Cardinality(EntryLines(logs)) < Len(logs)
    /\ analysis[1].summary.level_distribution["ERROR"] >= 1
    /\ analysis[1].summary.level_distribution["INFO"] >= 1
    /\ analysis[1].summary.level_distribution["UNKNOWN"] >= 1
    /\ analysis[1].summary.error_rate.num < analysis[1].summary.error_rate.den

\* a line that is no part of any error pattern
PlainLine(line) ==
    \A k \in 1..Len(line) :
        line[k] \notin ErrorNames \cup JsErrorNames \cup StatusToks \cup ApiWords
                       \cup {TracebackHeader, FrameTok}

\* lines h..e are one traceback block: the header, at least one stack frame,
\* and the line <Name>Error: <message>; every other line is plain
SingleTraceback(text, h, e) ==
    /\ h + 1 < e
    /\ text[h] = <<TracebackHeader>>
    /\ \A i \in (h + 1)..(e - 1) : text[i] = <<" ", FrameTok>>
    /\ \E name \in ErrorNames : text[e] = <<name, ":", " ", "bad">>
    /\ \A i \in 1..Len(text) : (i < h \/ i > e) => PlainLine(text[i])

\* C9 as stated: for a log text that holds exactly one Python traceback block,
\* ended by a line <Name>Error: <message> for any exception name ending in
\* Error, and no other error-shaped text, extract_errors returns exactly one
\* record, of error_type "python".
C9_OneTracebackOneRecord ==
    analysis # None =>
        \A h, e \in 1..Len(logs) :
            SingleTraceback(logs, h, e) =>
                /\ Len(analysis[1].errors) = 1
                /\ analysis[1].errors[1].error_type = "python"

\* the lines of a text before its first empty line
RECURSIVE ImportBlock(_)
ImportBlock(code) ==
    IF code = <<>> \/ Head(code) = <<>> THEN <<>>
    ELSE <<Head(code)>> \o ImportBlock(Tail(code))

NoDuplicates(seq) == \A i, j \in 1..Len(seq) : seq[i] = seq[j] => i = j

\* C10 as stated: when optimize_imports succeeds on a valid source, applying
\* it again to its own output also succeeds and yields the same leading block
\* of import statements, without duplicates.
C10_OptimizeImportsIdempotent ==
    Len(optimized) = 2 =>
        /\ optimized[2].ok
        /\ ImportBlock(optimized[2].code) = ImportBlock(optimized[1].code)
        /\ NoDuplicates(ImportBlock(optimized[2].code))

\* C16: provided every call to the model returns or raises, each request
\* ends with exactly one outcome, an AIResponse or an HTTP error of status
\* 400 or 500, after at most two model calls, whatever pre-processing and
\* the model do; once it has its outcome nothing more happens.
C16_TerminatesWithOneOutcome ==
    /\ [](Len(modelCalls) <= 2)
    /\ [](pc = "done" <=> outcome # None)
    /\ [](outcome # None => Answered \/ Failed(400) \/ Failed(500))
    /\ [][outcome # None => UNCHANGED <<outcome, modelCalls>>]_vars
    /\ <>[](pc = "done")

\* log analysis went well, both model calls raised, and the request ended
\* with HTTP 500
C16_Witness ==
    /\ pc = "done"
    /\ Len(modelCalls) = 2
    /\ \A k \in 1..2 : modelCalls[k].result # None /\ modelCalls[k].result[1].raises
    /\ Failed(500)

====
